---- MODULE Spec2Model ----
(***************************************************************************)
(* Multi-agent graph orchestrator of autotask_core: the basic, team and    *)
(* plan-execute (research) topologies, their nodes and the edges wired     *)
(* between them, run by the graph executor one superstep at a time.        *)
(***************************************************************************)
EXTENDS Integers, Sequences, FiniteSets, TLC

\* ------------------------------------------------------------------ bounds
\* ceiling on the supersteps of one run (the executor's recursion limit)
MaxSupersteps == 7
\* largest configured max_plan_iterations
MaxPlanIterations == 2
\* largest number of steps in a plan the model drafts
MaxStepNum == 3
\* largest number of tokens in a raw model text given to the supervisor
MaxTokens == 4
\* largest integer AGENT_RECURSION_LIMIT is set to
MaxEnvLimit == 3
\* largest number of assistants in the team of a lead
MaxTeam == 2

\* ------------------------------------------------------------- node names
START == "__start__"
END == "__end__"
None == "None"
\* current_plan before any plan is stored
NoPlan == [unset |-> TRUE]
\* a node raised, or the executor could not follow an edge
RAISE == "raise"

Lead == "Lead"
Team == <<"Researcher", "Writer">>
Workers == {"researcher", "coder"}

RECURSIVE SeqToSet(_)
SeqToSet(s) == IF s = <<>> THEN {} ELSE {Head(s)} \cup SeqToSet(Tail(s))

\* TeamGraphBuilder.get_team_members: the lead assistant, then its team
get_team_members == <<Lead>> \o Team

member_names == get_team_members

MemberSet == SeqToSet(member_names)

get_tools_node_name(member_name) == "tools_" \o member_name

\* ---------------------------------------------------------------- messages
StopText == "task is stopped by user"

Msg(role, name, content, tool_calls) ==
    [role |-> role, name |-> name, content |-> content, tool_calls |-> tool_calls]

UserMsg == Msg("human", None, "task", FALSE)
StopMsg == Msg("ai", None, StopText, FALSE)

\* langgraph.prebuilt.tools_condition, as used on the edges out of an agent
tools_condition(msgs) ==
    IF Len(msgs) > 0 /\ msgs[Len(msgs)].role = "ai" /\ msgs[Len(msgs)].tool_calls
    THEN "tools" ELSE END

VARIABLES
    cfg,             \* the assistant configuration the graph was built from
    frontier,        \* nodes the executor runs in the next superstep
    status,          \* "running", "done" or "error"
    messages,        \* State.messages
    next,            \* State.next
    should_stop,     \* State.should_stop
    locale,          \* State.locale
    plan_iterations, \* State.plan_iterations
    current_plan,    \* State.current_plan
    observations,    \* State.observations
    final_report,    \* State.final_report
    supersteps,      \* supersteps taken so far
    trace,           \* the nodes invoked so far, in order
    last,            \* the last node invocation: should_stop and plan_iterations
                     \* on entry, the Command returned, the successors, calls made
    checkpoint,      \* the channel values the checkpointer holds for the thread
    build            \* the graph under construction: the team, the nodes added

vars == <<cfg, frontier, status, messages, next, should_stop, locale,
          plan_iterations, current_plan, observations, final_report,
          supersteps, trace, last, checkpoint, build>>

planVars == <<locale, plan_iterations, current_plan, observations, final_report>>

\* a supervisor decision as the model gave it: the structured output (or RAISE),
\* and the raw text of the second call when that call returned
NoLlm == [structured |-> None, raw_ok |-> FALSE, content |-> <<>>]

NoLast == [node |-> None, stop |-> FALSE, iterations |-> 0, goto |-> None,
           targets |-> {}, msgs |-> <<>>, model_calls |-> 0, tool_calls |-> 0,
           llm |-> NoLlm]

\* build() has returned the compiled graph
Compiled == [status |-> "compiled"]

\* a Command whose update writes none of the plan-execute channels
NoUpdate == <<>>

\* the values of the State channels
StateValues ==
    [messages |-> messages, next |-> next, locale |-> locale,
     plan_iterations |-> plan_iterations, current_plan |-> current_plan,
     observations |-> observations, final_report |-> final_report]

\* ------------------------------------------------- the worker's step ceiling
\* the environment variable AGENT_RECURSION_LIMIT: not set, a text that is no
\* integer literal, or an integer literal
EnvUnset == [kind |-> "unset"]
EnvText == [kind |-> "text"]
EnvInt(n) == [kind |-> "int", value |-> n]

EnvValues == {EnvUnset, EnvText} \cup {EnvInt(n) : n \in -1..MaxEnvLimit}

default_recursion_limit == 25

ValueError == [raised |-> TRUE]

\* int(os.getenv("AGENT_RECURSION_LIMIT", str(default_recursion_limit)))
parsed_limit(env) ==
    CASE env.kind = "unset" -> [raised |-> FALSE, value |-> default_recursion_limit]
      [] env.kind = "int" -> [raised |-> FALSE, value |-> env.value]
      [] OTHER -> ValueError

\* faulty variant: a limit of zero is accepted
IsPositive_orzero(n) == n >= 0

\* `if parsed_limit > 0`
IsPositive(n) == n > 0

\* _execute_agent_step: the recursion_limit handed to the worker's graph
recursion_limit_of(env) ==
    LET parsed == parsed_limit(env)
    IN  IF parsed.raised THEN default_recursion_limit
        ELSE IF IsPositive(parsed.value) THEN parsed.value
        ELSE default_recursion_limit

\* ------------------------------------------------------------ configurations
BasicConfigs ==
    [topology : {"basic"}, reasoning : BOOLEAN, tools : {{}, {Lead}},
     max_plan_iterations : {1}, main_llm : {TRUE}, reasoning_llm : {FALSE},
     team_members : {{}}, enable_background_investigation : {FALSE},
     invoker : {"caller"}, env : {EnvUnset}]

TeamConfigs ==
    [topology : {"team"}, reasoning : BOOLEAN, tools : {{}, {"Researcher"}},
     max_plan_iterations : {1}, main_llm : {TRUE}, reasoning_llm : {FALSE},
     team_members : {{}}, enable_background_investigation : {FALSE},
     invoker : {"caller"}, env : {EnvUnset}]

ResearchConfigs ==
    [topology : {"research"}, reasoning : {FALSE}, tools : {{}},
     max_plan_iterations : 0..MaxPlanIterations, main_llm : BOOLEAN,
     reasoning_llm : BOOLEAN, team_members : {{}, Workers},
     enable_background_investigation : BOOLEAN,
     invoker : {"caller"}, env : {EnvUnset}]

\* the graph of a team member as _execute_agent_step invokes it: an agent with
\* its tool node, run under the ceiling read from the environment
WorkerGraphConfigs ==
    [topology : {"basic"}, reasoning : {FALSE}, tools : {{Lead}},
     max_plan_iterations : {1}, main_llm : {TRUE}, reasoning_llm : {FALSE},
     team_members : {{}}, enable_background_investigation : {FALSE},
     invoker : {"_execute_agent_step"}, env : EnvValues]

Configs == BasicConfigs \cup TeamConfigs \cup ResearchConfigs

Entry(c) ==
    CASE c.topology = "basic" -> IF c.reasoning THEN "reasoning_agent" ELSE "main_agent"
      [] c.topology = "team" -> IF c.reasoning THEN "reasoning_agent" ELSE "supervisor"
      [] OTHER -> "coordinator"

Init ==
    /\ cfg \in Configs
    /\ frontier = {Entry(cfg)}
    /\ status = "running"
    /\ messages \in (IF cfg.topology = "research" THEN {<<>>, <<UserMsg>>} ELSE {<<UserMsg>>})
    /\ next = None
    /\ should_stop \in BOOLEAN
    /\ locale = "en-US"
    /\ plan_iterations = 0
    /\ current_plan = NoPlan
    /\ observations = <<>>
    /\ final_report = ""
    /\ supersteps = 0
    /\ trace = <<>>
    /\ last = NoLast
    /\ checkpoint = StateValues
    /\ build = Compiled

\* ------------------------------------------------------------------ executor
\* the nodes registered by the builder of the configured topology
GraphNodes ==
    CASE cfg.topology = "basic" ->
           {"main_agent"} \cup (IF cfg.reasoning THEN {"reasoning_agent"} ELSE {})
               \cup (IF cfg.tools # {} THEN {"tools"} ELSE {})
      [] cfg.topology = "team" ->
           {"supervisor"} \cup MemberSet \cup {get_tools_node_name(m) : m \in cfg.tools}
               \cup (IF cfg.reasoning THEN {"reasoning_agent"} ELSE {})
      [] OTHER ->
           {"coordinator", "background_investigator", "planner", "reporter",
            "research_team", "human_feedback"} \cup Workers

\* what following a goto gives: the node itself, nothing for the terminal node
\* or a plain patch, and for a name that was never registered the write is
\* dropped or the step fails, depending on the library version
GotoOutcomes(goto) ==
    IF goto \in {None, END} THEN {{}}
    ELSE IF goto \in GraphNodes THEN {{goto}}
    ELSE {{}, {RAISE}}

\* faulty variant: the messages channel has no reducer, a patch overwrites it
add_messages_overwrite(left, right) == right

\* State.add_messages: the reducer of the messages channel appends the patch
add_messages(left, right) == left \o right

\* the channels a step's patch wrote, with the values they hold after it
Writes(new_messages, new_next, msgs, nextv, update) ==
    LET written == (IF msgs # <<>> THEN {"messages"} ELSE {})
                       \cup (IF nextv # None THEN {"next"} ELSE {})
                       \cup DOMAIN update
    IN  [ch \in written |->
            CASE ch = "messages" -> new_messages
              [] ch = "next" -> new_next
              [] OTHER -> update[ch]]

\* MemorySaver.put: one blob per channel, rewritten for the channels that the
\* step wrote; the blob of a channel the step did not write is kept as it is
put(saved, writes) ==
    [ch \in DOMAIN saved |-> IF ch \in DOMAIN writes THEN writes[ch] ELSE saved[ch]]

\* One superstep of the executor: node n returned Command(goto, update) (goto is
\* None when the node returned a plain patch), its patch is applied, and the
\* successors are the goto plus the targets of the edges wired out of n.
Superstep(n, goto, msgs, nextv, edge_targets, model_calls, tool_calls, llm, update) ==
    \E followed \in GotoOutcomes(goto) :
      LET targets == followed \cup edge_targets
          failed == RAISE \in targets
          succ == (frontier \ {n}) \cup (targets \ {END})
      IN  /\ messages' = IF failed THEN messages ELSE add_messages(messages, msgs)
          /\ next' = IF failed \/ nextv = None THEN next ELSE nextv
          /\ frontier' = IF failed THEN {} ELSE succ
          /\ status' = IF failed THEN "error" ELSE IF succ = {} THEN "done" ELSE "running"
          /\ supersteps' = supersteps + 1
          /\ trace' = Append(trace, n)
          /\ last' = [node |-> n, stop |-> should_stop, iterations |-> plan_iterations,
                      goto |-> goto, targets |-> targets, msgs |-> msgs,
                      model_calls |-> model_calls, tool_calls |-> tool_calls, llm |-> llm]
          /\ checkpoint' = IF failed THEN checkpoint
                           ELSE put(checkpoint, Writes(messages', next', msgs, nextv, update))
          /\ UNCHANGED <<cfg, should_stop, build>>

\* the step ceiling of the run: the one _execute_agent_step passes to a
\* worker's graph, the executor's own for a run the caller starts
recursion_limit ==
    IF cfg.invoker = "_execute_agent_step" THEN recursion_limit_of(cfg.env)
    ELSE MaxSupersteps

Runnable(n) ==
    /\ status = "running"
    /\ n \in frontier
    /\ supersteps < recursion_limit

\* the executor's step ceiling: the run is aborted when it is reached
GraphRecursionError ==
    /\ status = "running"
    /\ frontier # {}
    /\ supersteps >= recursion_limit
    /\ status' = "error"
    /\ frontier' = {}
    /\ UNCHANGED <<cfg, messages, next, should_stop, supersteps, trace, last, checkpoint,
                   build>>
    /\ UNCHANGED planVars

\* the caller sets the cancellation flag while the run is in progress
set_should_stop ==
    /\ status = "running"
    /\ ~should_stop
    /\ should_stop' = TRUE
    /\ UNCHANGED <<cfg, frontier, status, messages, next, supersteps, trace, last,
                   checkpoint, build>>
    /\ UNCHANGED planVars

\* ------------------------------------------------------- basic topology nodes
\* what a chat model call can produce
AgentOutcomes == {"text", "tool_call", RAISE}

AgentReply(o) == Msg("ai", None, "reply", o = "tool_call")

\* faulty variant: main_agent wired back to itself when there are no tools
MainAgentEdge_loop(msgs) ==
    IF cfg.tools # {} THEN (IF tools_condition(msgs) = "tools" THEN "tools" ELSE END)
    ELSE "main_agent"

\* faulty variant: main_agent wired to the tool node by a fixed edge
MainAgentEdge_fixed(msgs) ==
    IF cfg.tools # {} THEN "tools" ELSE END

\* BasicGraphBuilder.add_edges: the edge out of main_agent
MainAgentEdge(msgs) ==
    IF cfg.tools # {} THEN (IF tools_condition(msgs) = "tools" THEN "tools" ELSE END)
    ELSE END

main_agent_node ==
    /\ cfg.topology = "basic"
    /\ Runnable("main_agent")
    /\ IF should_stop
       THEN Superstep("main_agent", None, <<StopMsg>>, None,
                      {MainAgentEdge(messages \o <<StopMsg>>)}, 0, 0, NoLlm, NoUpdate)
       ELSE \E o \in AgentOutcomes :
              IF o = RAISE
              THEN Superstep("main_agent", None, <<>>, None, {RAISE}, 1, 0, NoLlm, NoUpdate)
              ELSE Superstep("main_agent", None, <<AgentReply(o)>>, None,
                             {MainAgentEdge(messages \o <<AgentReply(o)>>)}, 1, 0, NoLlm, NoUpdate)
    /\ UNCHANGED planVars

\* BasicGraphBuilder / TeamGraphBuilder add_edges: the edge out of reasoning_agent
ReasoningEdge == IF cfg.topology = "team" THEN "supervisor" ELSE "main_agent"

reasoning_agent_node ==
    /\ cfg.topology \in {"basic", "team"}
    /\ Runnable("reasoning_agent")
    /\ IF should_stop
       THEN Superstep("reasoning_agent", None, <<StopMsg>>, None, {ReasoningEdge}, 0, 0, NoLlm, NoUpdate)
       ELSE \E o \in AgentOutcomes :
              IF o = RAISE
              THEN Superstep("reasoning_agent", None, <<>>, None, {RAISE}, 1, 0, NoLlm, NoUpdate)
              ELSE Superstep("reasoning_agent", None, <<AgentReply(o)>>, None,
                             {ReasoningEdge}, 1, 0, NoLlm, NoUpdate)
    /\ UNCHANGED planVars

\* the prebuilt ToolNode: runs the requested tool and appends its result; a
\* failing tool gives an error result, not a failed node
ToolResults == {"result", "error"}

\* BasicGraphBuilder.add_edges: the edge out of the tool node
ToolsEdge == "main_agent"

tools_node ==
    /\ cfg.topology = "basic"
    /\ Runnable("tools")
    /\ \E r \in ToolResults :
         Superstep("tools", None, <<Msg("tool", None, r, FALSE)>>, None,
                   {ToolsEdge}, 0, 1, NoLlm, NoUpdate)
    /\ UNCHANGED planVars

\* -------------------------------------------------- supervisor decision parsing
\* A raw model text is a sequence of tokens: braces, JSON members ("next": v or
\* another key), bare words naming somebody, and other prose.
Tok(t, val) == [t |-> t, val |-> val]
LB == Tok("{", None)
RB == Tok("}", None)
KVNext(v) == Tok("next", v)
KVOther == Tok("other", None)
Word(v) == Tok("word", v)
Prose == Tok("word", None)

Tokens ==
    {LB, RB, KVOther, Prose}
        \cup {KVNext(v) : v \in {"Researcher", "FINISH", "Ghostwriter"}}
        \cup {Word(v) : v \in {"Researcher", "Writer", "FINISH"}}

RECURSIVE SeqsUpTo(_, _)
SeqsUpTo(S, n) ==
    IF n = 0 THEN {<<>>}
    ELSE LET shorter == SeqsUpTo(S, n - 1)
         IN  shorter \cup {Append(q, x) : q \in shorter, x \in S}

\* every raw text the model can give, up to the bound
RawContents == SeqsUpTo(Tokens, MaxTokens)

Positions(content, tok) == {i \in 1..Len(content) : content[i] = tok}

Min(S) == CHOOSE x \in S : \A y \in S : x <= y
Max(S) == CHOOSE x \in S : \A y \in S : x >= y

\* re.search(r'\{.*\}', content, re.DOTALL): greedy, from the first "{" to the
\* last "}" after it; <<>> when there is no match
json_match(content) ==
    LET lbs == Positions(content, LB)
        rbs == Positions(content, RB)
    IN  IF lbs # {} /\ rbs # {} /\ Min(lbs) < Max(rbs)
        THEN SubSeq(content, Min(lbs), Max(rbs))
        ELSE <<>>

\* json.loads accepts the text: an object whose members are key/value pairs or
\* nested objects
RECURSIVE IsJsonObject(_)
RECURSIVE IsJsonMembers(_)
IsJsonObject(s) ==
    /\ Len(s) >= 2
    /\ s[1] = LB
    /\ s[Len(s)] = RB
    /\ IsJsonMembers(SubSeq(s, 2, Len(s) - 1))

IsJsonMembers(s) ==
    \/ s = <<>>
    \/ /\ s # <<>>
       /\ s[1].t \in {"next", "other"}
       /\ IsJsonMembers(Tail(s))
    \/ /\ s # <<>>
       /\ s[1] = LB
       /\ \E k \in 2..Len(s) :
            IsJsonObject(SubSeq(s, 1, k)) /\ IsJsonMembers(SubSeq(s, k + 1, Len(s)))

\* response_dict.get("next", default): the last top-level "next" member
RECURSIVE TopNext(_, _, _)
TopNext(s, depth, acc) ==
    IF s = <<>> THEN acc
    ELSE CASE s[1] = LB -> TopNext(Tail(s), depth + 1, acc)
           [] s[1] = RB -> TopNext(Tail(s), depth - 1, acc)
           [] s[1].t = "next" /\ depth = 1 -> TopNext(Tail(s), depth, s[1].val)
           [] OTHER -> TopNext(Tail(s), depth, acc)

\* `name in content`
Mentions(content, name) ==
    \E i \in 1..Len(content) : content[i].t \in {"next", "word"} /\ content[i].val = name

\* the first of member_names + ["FINISH"] the text mentions, else "supervisor"
RECURSIVE ScanNames(_, _)
ScanNames(names, content) ==
    IF names = <<>> THEN "supervisor"
    ELSE IF Mentions(content, Head(names)) THEN Head(names)
    ELSE ScanNames(Tail(names), content)

\* TeamGraphBuilder.team_supervisor_node, the parsing of the raw response
ParseRaw(content) ==
    LET json_str == json_match(content)
    IN  IF json_str # <<>>
        THEN IF IsJsonObject(json_str)
             THEN TopNext(json_str, 0, "supervisor")
             ELSE "supervisor"
        ELSE ScanNames(member_names \o <<"FINISH">>, content)

\* TeamGraphBuilder.team_supervisor_node: the name the decision selects
SelectedName(llm) ==
    IF llm.structured # RAISE THEN llm.structured ELSE ParseRaw(llm.content)

\* TeamGraphBuilder.team_supervisor_node: the goto for a selected name
SupervisorGoto(selected_name) ==
    IF selected_name = "FINISH" THEN END
    ELSE IF selected_name \in MemberSet THEN selected_name
    ELSE "supervisor"

\* TeamGraphBuilder.add_edges, route_from_supervisor and its edges mapping: a
\* value that is no key of the mapping fails the lookup
route_from_supervisor(nextv) == IF nextv # None /\ nextv # "" THEN nextv ELSE END

SupervisorEdge(nextv) ==
    LET r == route_from_supervisor(nextv)
    IN  IF r \in MemberSet THEN r ELSE IF r = END THEN END ELSE RAISE

\* names the model can give as a structured decision
DecisionNames == MemberSet \cup {"FINISH", "Ghostwriter", "supervisor"}

Structured(n) == [structured |-> n, raw_ok |-> FALSE, content |-> <<>>]
Raw(c) == [structured |-> RAISE, raw_ok |-> TRUE, content |-> c]
BothRaise == [structured |-> RAISE, raw_ok |-> FALSE, content |-> <<>>]

\* raw texts the supervisor is given in whole runs: one per parsing branch
SampleContents ==
    { <<Prose, LB, KVNext("Researcher"), RB>>,
      <<LB, KVNext("FINISH"), RB>>,
      <<LB, KVNext("Ghostwriter"), RB>>,
      <<LB, KVOther, RB>>,
      <<LB, Word("Researcher"), RB>>,
      <<Word("Writer"), Prose>>,
      <<Prose>> }

RunDecisions ==
    {Structured(n) : n \in DecisionNames} \cup {Raw(c) : c \in SampleContents}
        \cup {BothRaise}

\* ---------------------------------------------------------- team topology nodes
supervisor_step(decisions) ==
    /\ cfg.topology = "team"
    /\ Runnable("supervisor")
    /\ IF should_stop
       THEN Superstep("supervisor", END, <<>>, END, {SupervisorEdge(END)}, 0, 0, NoLlm, NoUpdate)
       ELSE \E d \in decisions :
              IF d = BothRaise
              THEN Superstep("supervisor", None, <<>>, None, {RAISE}, 2, 0, d, NoUpdate)
              ELSE LET goto == SupervisorGoto(SelectedName(d))
                   IN  Superstep("supervisor", goto, <<>>, goto, {SupervisorEdge(goto)},
                                 IF d.structured = RAISE THEN 2 ELSE 1, 0, d, NoUpdate)
    /\ UNCHANGED planVars

team_supervisor_node == supervisor_step(RunDecisions)

\* TeamGraphBuilder.add_edges: the edge out of a member node
MemberEdge(m, msgs) ==
    IF m \in cfg.tools
    THEN (IF tools_condition(msgs) = "tools" THEN get_tools_node_name(m) ELSE "supervisor")
    ELSE "supervisor"

team_member_node(m) ==
    /\ cfg.topology = "team"
    /\ Runnable(m)
    /\ IF should_stop
       THEN Superstep(m, END, <<>>, END, {MemberEdge(m, messages)}, 0, 0, NoLlm, NoUpdate)
       ELSE \E o \in AgentOutcomes :
              CASE o = RAISE -> Superstep(m, None, <<>>, None, {RAISE}, 1, 0, NoLlm, NoUpdate)
                [] o = "tool_call" ->
                     LET nxt == get_tools_node_name(m)
                         reply == AgentReply(o)
                     IN  Superstep(m, nxt, <<reply>>, nxt,
                                   {MemberEdge(m, messages \o <<reply>>)}, 1, 0, NoLlm, NoUpdate)
                [] OTHER ->
                     LET new_message == Msg("human", m, "reply", FALSE)
                     IN  Superstep(m, "supervisor", <<new_message>>, "supervisor",
                                   {MemberEdge(m, messages \o <<new_message>>)}, 1, 0, NoLlm, NoUpdate)
    /\ UNCHANGED planVars

member_node == \E m \in MemberSet : team_member_node(m)

\* faulty variant: the tool node of a member is wired to the supervisor
MemberToolsEdge_supervisor(m) == "supervisor"

\* TeamGraphBuilder.add_edges: the edge out of the tool node of member m
MemberToolsEdge(m) == m

\* the ToolNode registered as tools_<member>, with its edge back to the member
member_tools_node ==
    /\ cfg.topology = "team"
    /\ \E m \in cfg.tools :
         /\ Runnable(get_tools_node_name(m))
         /\ \E r \in ToolResults :
              Superstep(get_tools_node_name(m), None, <<Msg("tool", None, r, FALSE)>>,
                        None, {MemberToolsEdge(m)}, 0, 1, NoLlm, NoUpdate)
    /\ UNCHANGED planVars

\* --------------------------------------------------- plan-execute (research)
\* types.Step: the fields a validated step has (title, description and
\* step_type carry free text only)
Step(assigned_to, execution_res) ==
    [assigned_to |-> assigned_to, execution_res |-> execution_res]

\* types.Plan
Plan(has_enough_context, steps) ==
    [has_enough_context |-> has_enough_context, steps |-> steps]

\* step values the model can draft: any worker name, result unset or filled in
StepValues == {Step(w, r) : w \in Workers, r \in {None, "res"}}

PlanValues == {Plan(h, st) : h \in BOOLEAN, st \in SeqsUpTo(StepValues, MaxStepNum)}

AttributeError == "AttributeError"

\* attribute access on a validated model object
GetAttr(obj, attr) == IF attr \in DOMAIN obj THEN obj[attr] ELSE AttributeError

\* `not step.execution_res`
Unexecuted(step) == step.execution_res \in {None, ""}

\* index of the first step with unset execution_res, 0 when there is none
FirstUnexecuted(steps) ==
    LET open == {i \in 1..Len(steps) : Unexecuted(steps[i])}
    IN  IF open = {} THEN 0 ELSE Min(open)

\* a node of the research graph returned Command(goto, update)
ResearchStep(n, goto, msgs, model_calls, update) ==
    Superstep(n, goto, msgs, None, {}, model_calls, 0, NoLlm, update)

\* what the coordinator's model call can give: it raises, answers without a
\* tool call, or calls a tool (handoff_to_planner or another name), with or
\* without a locale argument
CoordinatorOutcomes ==
    {[tool |-> t, locale |-> l] :
        t \in {RAISE, None, "handoff_to_planner", "other"}, l \in {None, "zh-CN"}}

\* the coordinator's model response as the step records it
CoordinatorReply(o) == [structured |-> o.tool, raw_ok |-> FALSE, content |-> <<>>]

coordinator_node ==
    /\ cfg.topology = "research"
    /\ Runnable("coordinator")
    /\ IF messages = <<>>
       THEN ResearchStep("coordinator", END, <<>>, 0, NoUpdate) /\ UNCHANGED locale
       ELSE IF ~cfg.main_llm
       THEN ResearchStep("coordinator", END, <<>>, 0, NoUpdate) /\ UNCHANGED locale
       ELSE \E o \in CoordinatorOutcomes :
              CASE o.tool = RAISE ->
                     /\ Superstep("coordinator", END, <<>>, None, {}, 1, 0,
                                  CoordinatorReply(o), NoUpdate)
                     /\ UNCHANGED locale
                [] o.tool = None ->
                     /\ Superstep("coordinator", END, <<>>, None, {}, 1, 0,
                                  CoordinatorReply(o), [locale |-> locale])
                     /\ UNCHANGED locale
                [] OTHER ->
                     LET new_locale == IF o.tool = "handoff_to_planner" /\ o.locale # None
                                       THEN o.locale ELSE locale
                     IN  /\ Superstep("coordinator",
                                      IF cfg.enable_background_investigation
                                      THEN "background_investigator" ELSE "planner",
                                      <<>>, None, {}, 1, 0, CoordinatorReply(o),
                                      [locale |-> new_locale])
                         /\ locale' = new_locale
    /\ UNCHANGED <<plan_iterations, current_plan, observations, final_report>>

background_investigation_node ==
    /\ cfg.topology = "research"
    /\ Runnable("background_investigator")
    /\ ResearchStep("background_investigator", "planner", <<>>, 0, NoUpdate)
    /\ UNCHANGED planVars

\* what the planner's model call can give: a plan, or nothing parseable
NoParse == [raise |-> TRUE]

PlannerOutcomes == PlanValues \cup {NoParse}

\* faulty variant: the counter is stored without the increment
NextPlanIterations_same(i) == i

\* planner_node: the counter stored with a plan that needs more context
NextPlanIterations(i) == i + 1

PlannerMsg == Msg("ai", "planner", "plan", FALSE)

\* faulty variant: the ceiling test is strict
PlannerExhausted_strict == plan_iterations > cfg.max_plan_iterations

\* planner_node: the iteration ceiling is checked before anything else
PlannerExhausted == plan_iterations >= cfg.max_plan_iterations

\* faulty variant: the plan is assigned on the state object and left out of the
\* patch, as the worker wrapper does with execution_res
PlannerUpdate_inplace(plan, i) == [plan_iterations |-> NextPlanIterations(i)]

\* planner_node: the patch returned with a plan that needs more context
PlannerUpdate(plan, i) ==
    [current_plan |-> plan, plan_iterations |-> NextPlanIterations(i)]

\* faulty variant: a failed call always hands over to the reporter
PlannerFailureGoto_reporter(i) == "reporter"

\* planner_node: where a failed model call or an unparseable plan leads
PlannerFailureGoto(i) == IF i > 0 THEN "reporter" ELSE END

planner_node ==
    /\ cfg.topology = "research"
    /\ Runnable("planner")
    /\ IF PlannerExhausted
       THEN /\ ResearchStep("planner", "reporter", <<>>, 0, NoUpdate)
            /\ UNCHANGED <<current_plan, plan_iterations>>
       ELSE IF ~(cfg.reasoning_llm \/ cfg.main_llm)
       THEN /\ ResearchStep("planner", END, <<>>, 0, NoUpdate)
            /\ UNCHANGED <<current_plan, plan_iterations>>
       ELSE \E o \in PlannerOutcomes :
              IF o = NoParse
              THEN /\ ResearchStep("planner", PlannerFailureGoto(plan_iterations),
                                   <<>>, 1, NoUpdate)
                   /\ UNCHANGED <<current_plan, plan_iterations>>
              ELSE IF o.has_enough_context
              THEN /\ ResearchStep("planner", "reporter", <<PlannerMsg>>, 1,
                                   [current_plan |-> o])
                   /\ current_plan' = o
                   /\ UNCHANGED plan_iterations
              ELSE /\ ResearchStep("planner", "research_team", <<PlannerMsg>>, 1,
                                   PlannerUpdate(o, plan_iterations))
                   /\ current_plan' = o
                   /\ plan_iterations' = NextPlanIterations(plan_iterations)
    /\ UNCHANGED <<locale, observations, final_report>>

\* research_team_node: the goto of the Step-Dispatcher; reading member_name
\* off a step that has no such attribute raises
DispatchTarget(plan, team_members) ==
    IF plan = NoPlan THEN "planner"
    ELSE IF plan.steps = <<>> THEN "planner"
    ELSE LET i == FirstUnexecuted(plan.steps)
         IN  IF i = 0 THEN "planner"
             ELSE LET member_name == GetAttr(plan.steps[i], "member_name")
                  IN  IF member_name = AttributeError THEN RAISE
                      ELSE IF member_name \in team_members THEN member_name
                      ELSE "planner"

research_team_node ==
    /\ cfg.topology = "research"
    /\ Runnable("research_team")
    /\ LET goto == DispatchTarget(current_plan, cfg.team_members)
       IN  IF goto = RAISE
           THEN Superstep("research_team", None, <<>>, None, {RAISE}, 0, 0, NoLlm, NoUpdate)
           ELSE ResearchStep("research_team", goto, <<>>, 0, NoUpdate)
    /\ UNCHANGED planVars

\* reporter_node, with the edge from reporter to END
reporter_node ==
    /\ cfg.topology = "research"
    /\ Runnable("reporter")
    /\ IF current_plan = NoPlan
       THEN /\ Superstep("reporter", None, <<>>, None, {RAISE}, 0, 0, NoLlm, NoUpdate)
            /\ UNCHANGED final_report
       ELSE \E o \in {"report", RAISE} :
              IF o = RAISE
              THEN /\ Superstep("reporter", None, <<>>, None, {RAISE}, 1, 0, NoLlm, NoUpdate)
                   /\ UNCHANGED final_report
              ELSE /\ Superstep("reporter", None, <<>>, None, {END}, 1, 0, NoLlm,
                                [final_report |-> o])
                   /\ final_report' = o
    /\ UNCHANGED <<locale, plan_iterations, current_plan, observations>>

Next ==
    \/ main_agent_node
    \/ reasoning_agent_node
    \/ tools_node
    \/ team_supervisor_node
    \/ member_node
    \/ member_tools_node
    \/ coordinator_node
    \/ background_investigation_node
    \/ planner_node
    \/ research_team_node
    \/ reporter_node
    \/ set_should_stop
    \/ GraphRecursionError

Spec == Init /\ [][Next]_vars

\* ------------------------------------ runs of every graph, a worker's included
WorkerGraphInit ==
    /\ cfg \in WorkerGraphConfigs
    /\ frontier = {Entry(cfg)}
    /\ status = "running"
    /\ messages = <<UserMsg>>
    /\ next = None
    /\ should_stop = FALSE
    /\ locale = "en-US"
    /\ plan_iterations = 0
    /\ current_plan = NoPlan
    /\ observations = <<>>
    /\ final_report = ""
    /\ supersteps = 0
    /\ trace = <<>>
    /\ last = NoLast
    /\ checkpoint = StateValues
    /\ build = Compiled

CeilingSpec == (Init \/ WorkerGraphInit) /\ [][Next]_vars

\* ------------------------------------------------ the supervisor on any raw text
\* every decision the model can give, the raw text ranging over RawContents
AllDecisions ==
    {Structured(n) : n \in DecisionNames} \cup {Raw(c) : c \in RawContents}
        \cup {BothRaise}

RouterInit == Init /\ cfg.topology = "team" /\ ~cfg.reasoning

RouterNext == supervisor_step(AllDecisions)

RouterSpec == RouterInit /\ [][RouterNext]_vars

\* --------------------------------------------------- building a team graph
\* names an assistant can carry, the fixed node names among them
NamePool == {"Lead", "X", "tools_X", "supervisor", "reasoning_agent"}

\* an assistant as the builder sees it: its name and whether it has tools
Assistants == [name : NamePool, tools : BOOLEAN]

\* TeamGraphBuilder.get_team_members for a lead and its team
team_members_of(lead, team) == <<lead>> \o team

\* faulty variant: a name that is already registered is passed over
add_node_skip(nodes, name) ==
    IF name \in SeqToSet(nodes) THEN [ok |-> TRUE, nodes |-> nodes]
    ELSE [ok |-> TRUE, nodes |-> Append(nodes, name)]

\* graph_builder.add_node: a name already registered, or a reserved one, raises
add_node(nodes, name) ==
    IF name \in SeqToSet(nodes) \cup {START, END} THEN [ok |-> FALSE, nodes |-> nodes]
    ELSE [ok |-> TRUE, nodes |-> Append(nodes, name)]

BuildInit ==
    /\ cfg \in {c \in TeamConfigs : c.tools = {}}
    /\ \E lead \in Assistants, team \in SeqsUpTo(Assistants, MaxTeam) :
         build = [status |-> "building", members |-> team_members_of(lead, team),
                  nodes |-> <<>>, tools_nodes |-> {}, pc |-> "add_nodes", i |-> 1]
    /\ frontier = {}
    /\ status = "idle"
    /\ messages = <<>>
    /\ next = None
    /\ should_stop = FALSE
    /\ locale = "en-US"
    /\ plan_iterations = 0
    /\ current_plan = NoPlan
    /\ observations = <<>>
    /\ final_report = ""
    /\ supersteps = 0
    /\ trace = <<>>
    /\ last = NoLast
    /\ checkpoint = StateValues

runVars == <<cfg, frontier, status, messages, next, should_stop, locale,
             plan_iterations, current_plan, observations, final_report,
             supersteps, trace, last, checkpoint>>

\* build() logs the exception and raises it again
BuildFailed == [build EXCEPT !.status = "failed"]

\* add_nodes: the reasoning_agent node, when there is a reasoning model, and
\* the supervisor node
add_fixed_nodes ==
    /\ build.status = "building"
    /\ build.pc = "add_nodes"
    /\ LET r == IF cfg.reasoning THEN add_node(build.nodes, "reasoning_agent")
                ELSE [ok |-> TRUE, nodes |-> build.nodes]
           sv == add_node(r.nodes, "supervisor")
       IN  build' = IF r.ok /\ sv.ok
                    THEN [build EXCEPT !.nodes = sv.nodes, !.pc = "member"]
                    ELSE BuildFailed
    /\ UNCHANGED runVars

\* add_nodes: the node of the next team member
add_member_node ==
    /\ build.status = "building"
    /\ build.pc = "member"
    /\ build.i <= Len(build.members)
    /\ LET member == build.members[build.i]
           r == add_node(build.nodes, member.name)
       IN  build' = IF ~r.ok THEN BuildFailed
                    ELSE IF member.tools
                    THEN [build EXCEPT !.nodes = r.nodes, !.pc = "tools"]
                    ELSE [build EXCEPT !.nodes = r.nodes, !.i = @ + 1]
    /\ UNCHANGED runVars

\* add_nodes: the tool node of a member that has tools, recorded in tools_nodes
add_member_tools_node ==
    /\ build.status = "building"
    /\ build.pc = "tools"
    /\ LET member == build.members[build.i]
           tools_node_name == get_tools_node_name(member.name)
           r == add_node(build.nodes, tools_node_name)
       IN  build' = IF ~r.ok THEN BuildFailed
                    ELSE [build EXCEPT !.nodes = r.nodes, !.pc = "member", !.i = @ + 1,
                                       !.tools_nodes =
                                           {q \in @ : q[1] # member.name}
                                               \cup {<<member.name, tools_node_name>>}]
    /\ UNCHANGED runVars

\* add_edges and compile, once every member has its nodes
compile ==
    /\ build.status = "building"
    /\ build.pc = "member"
    /\ build.i > Len(build.members)
    /\ build' = [build EXCEPT !.status = "built"]
    /\ UNCHANGED runVars

BuildNext == add_fixed_nodes \/ add_member_node \/ add_member_tools_node \/ compile

BuildSpec == BuildInit /\ [][BuildNext]_vars

\* ------------------------------------------- FunctionCallAgent: one query
\* the tools the agent holds, and the names a model can ask for
ToolNames == {"search", "calculator"}
FunctionNames == ToolNames \cup {"ghost"}

\* the arguments text of a function call: a JSON object, JSON that is no
\* object, text that is no JSON, or nothing
ArgumentTexts == {"object", "array", "invalid", "empty"}

FunctionCalls == [name : FunctionNames, arguments : ArgumentTexts]

\* message.function_call is not set
NoCall == [unset |-> TRUE]

\* what tool.run does: it returns a result json.dumps can write, one it
\* cannot, or it raises
RunOutcomes == {"result", "unserializable", "raises"}

\* an exception that leaves the function it was raised in
Raised(exc) == [raised |-> exc]

\* json.loads(function_call.arguments)
json_loads(text) ==
    IF text \in {"object", "array"} THEN [kind |-> text]
    ELSE Raised("JSONDecodeError")

\* FunctionCallAgent.get_tool
get_tool(tool_name) == IF tool_name \in ToolNames THEN tool_name ELSE None

\* await tool.run(**arguments)
tool_run(arguments, outcome) ==
    IF arguments.kind # "object" THEN Raised("TypeError")
    ELSE IF outcome = "raises" THEN Raised("ToolError")
    ELSE [result |-> outcome]

\* faulty variant: only a JSON error is caught
Caught_json(exc) == exc = "JSONDecodeError"

\* `except Exception`
Caught(exc) == exc \in {"JSONDecodeError", "TypeError", "ToolError"}

ErrorPayload(message) == [status |-> "error", message |-> message]

\* the except branch of handle_function_call
Except(exc) ==
    IF Caught(exc) THEN ErrorPayload(exc) ELSE Raised(exc)

\* FunctionCallAgent.handle_function_call
handle_function_call(function_call, outcome) ==
    LET arguments == json_loads(function_call.arguments)
    IN  IF "raised" \in DOMAIN arguments THEN Except(arguments.raised)
        ELSE IF get_tool(function_call.name) = None
        THEN ErrorPayload("Tool not found")
        ELSE LET result == tool_run(arguments, outcome)
             IN  IF "raised" \in DOMAIN result THEN Except(result.raised)
                 ELSE [status |-> "success", result |-> result.result]

\* json.dumps(function_result, ensure_ascii=False)
json_dumps(function_result) ==
    IF function_result.status = "success" /\ function_result.result = "unserializable"
    THEN Raised("TypeError")
    ELSE [json |-> function_result]

FunctionCallInit ==
    /\ cfg = [topology |-> "function_call"]
    /\ messages \in {<<UserMsg>>, <<UserMsg, Msg("assistant", None, "reply", FALSE), UserMsg>>}
    /\ status = "running"
    /\ frontier = {"query"}
    /\ next = None
    /\ should_stop = FALSE
    /\ locale = "en-US"
    /\ plan_iterations = 0
    /\ current_plan = NoPlan
    /\ observations = <<>>
    /\ final_report = ""
    /\ supersteps = 0
    /\ trace = <<>>
    /\ last = NoLast
    /\ checkpoint = StateValues
    /\ build = Compiled

\* the outcome of query recorded in last
QueryDone(function_call, outcome, explain, result, model_calls, failed) ==
    /\ last' = [node |-> "query", function_call |-> function_call, run |-> outcome,
                explain |-> explain, result |-> result, model_calls |-> model_calls,
                before |-> messages]
    /\ status' = IF failed THEN "error" ELSE "done"
    /\ frontier' = {}
    /\ supersteps' = supersteps + 1
    /\ trace' = Append(trace, "query")
    /\ UNCHANGED <<cfg, next, should_stop, checkpoint, build>>
    /\ UNCHANGED planVars

\* FunctionCallAgent.query: the model is asked once; if it asks for a function
\* the function is run, the call and its result are appended to the caller's
\* message list and the model is asked again
query ==
    /\ cfg.topology = "function_call"
    /\ status = "running"
    /\ \E response \in FunctionCalls \cup {NoCall, Raised("APIError")},
          outcome \in RunOutcomes, explain \in {"reply", RAISE} :
         IF response = Raised("APIError")
         THEN messages' = messages /\ QueryDone(NoCall, outcome, explain, None, 1, TRUE)
         ELSE IF response = NoCall
         THEN messages' = messages /\ QueryDone(NoCall, outcome, explain, None, 1, FALSE)
         ELSE LET function_result == handle_function_call(response, outcome)
                  call_message ==
                      [role |-> "assistant", content |-> None, function_call |-> response]
              IN  IF "raised" \in DOMAIN function_result
                  THEN /\ messages' = messages
                       /\ QueryDone(response, outcome, explain, function_result, 1, TRUE)
                  ELSE LET content == json_dumps(function_result)
                       IN  IF "raised" \in DOMAIN content
                           THEN /\ messages' = Append(messages, call_message)
                                /\ QueryDone(response, outcome, explain, function_result,
                                             1, TRUE)
                           ELSE /\ messages' = messages \o
                                      <<call_message,
                                        [role |-> "function", name |-> response.name,
                                         content |-> content]>>
                                /\ QueryDone(response, outcome, explain, function_result,
                                             2, explain = RAISE)

FunctionCallNext == query

FunctionCallSpec == FunctionCallInit /\ [][FunctionCallNext]_vars

\* ------------------------------------------------ the worker wrapper
\* what agent.ainvoke gives back to _execute_agent_step: the content of the
\* last message of the worker's run (a text or the empty text), or the worker's
\* run raises
AgentResponses == {"res", "", RAISE}

\* the message _execute_agent_step appends: the response under the worker's name
WorkerMsg(agent_name, response_content) ==
    Msg("human", agent_name, response_content, FALSE)

\* `current_step.execution_res = response_content`: the step object of the
\* plan held in the state is written in place
ExecutedPlan(plan, i, response_content) ==
    [plan EXCEPT !.steps[i].execution_res = response_content]

\* _execute_agent_step as the node of worker agent_name
agent_node(agent_name) ==
    /\ cfg.topology = "research"
    /\ Runnable(agent_name)
    /\ IF current_plan = NoPlan
       THEN /\ Superstep(agent_name, None, <<>>, None, {RAISE}, 0, 0, NoLlm, NoUpdate)
            /\ UNCHANGED planVars
       ELSE LET i == FirstUnexecuted(current_plan.steps)
            IN  IF i = 0
                THEN /\ ResearchStep(agent_name, "research_team", <<>>, 0, NoUpdate)
                     /\ UNCHANGED planVars
                ELSE \E response_content \in AgentResponses :
                       IF response_content = RAISE
                       THEN /\ Superstep(agent_name, None, <<>>, None, {RAISE}, 1, 0,
                                         NoLlm, NoUpdate)
                            /\ UNCHANGED planVars
                       ELSE /\ ResearchStep(agent_name, "research_team",
                                            <<WorkerMsg(agent_name, response_content)>>, 1,
                                            [observations |->
                                                Append(observations, response_content)])
                            /\ current_plan' =
                                  ExecutedPlan(current_plan, i, response_content)
                            /\ observations' = Append(observations, response_content)
                            /\ UNCHANGED <<locale, plan_iterations, final_report>>

\* a plan-execute run at the moment a worker node is entered: the coordinator,
\* the planner and the dispatcher have run, a plan that needs more context is
\* stored
WorkerInit ==
    /\ cfg \in {c \in ResearchConfigs : c.main_llm /\ c.max_plan_iterations >= 1}
    /\ \E agent_name \in Workers : frontier = {agent_name}
    /\ status = "running"
    /\ messages = <<UserMsg, PlannerMsg>>
    /\ next = None
    /\ should_stop = FALSE
    /\ locale = "en-US"
    /\ plan_iterations \in 1..MaxPlanIterations
    /\ plan_iterations <= cfg.max_plan_iterations
    /\ current_plan \in {p \in PlanValues : ~p.has_enough_context}
    /\ observations \in {<<>>, <<"res">>}
    /\ final_report = ""
    /\ supersteps = 3
    /\ trace = <<"coordinator", "planner", "research_team">>
    /\ last = NoLast
    /\ checkpoint = StateValues
    /\ build = Compiled

WorkerNext ==
    \/ \E agent_name \in Workers : agent_node(agent_name)
    \/ research_team_node
    \/ planner_node
    \/ reporter_node
    \/ GraphRecursionError

WorkerSpec == WorkerInit /\ [][WorkerNext]_vars

\* ======================================================================= claims
Count(seq, x) == Cardinality({i \in 1..Len(seq) : seq[i] = x})

Invoked == last.node # None

\* C1: a node entered with should_stop = true returns a Command that ends the
\* run (no successor but the terminal node) and carries the fixed cancellation
\* message, for every node type.
C1_StopShortCircuits ==
    (Invoked /\ last.stop) =>
        (last.targets \subseteq {END} /\ last.msgs = <<StopMsg>>)

\* C2: a node entered after should_stop became true starts no model call and
\* no tool call (stated for the basic and team topologies, whose State carries
\* the flag; the research nodes do not read it either).
C2_NoCallsAfterStop ==
    (Invoked /\ last.stop /\ cfg.topology \in {"basic", "team"}) =>
        (last.model_calls = 0 /\ last.tool_calls = 0)

\* C3: the Planner invoked with plan_iterations >= max_plan_iterations goes to
\* the Reporter, never to the Step-Dispatcher, and makes no model call.
C3_PlannerCeiling ==
    (last.node = "planner" /\ last.iterations >= cfg.max_plan_iterations) =>
        (last.goto = "reporter" /\ last.targets = {"reporter"}
            /\ last.model_calls = 0 /\ last.msgs = <<>>)

C3_Witness ==
    /\ last.node = "planner"
    /\ cfg.max_plan_iterations >= 1
    /\ last.iterations >= cfg.max_plan_iterations
    /\ frontier = {"reporter"}

\* the plan-execute run whose first draft needs more context, with a ceiling of 1
C4_Case ==
    /\ cfg.topology = "research"
    /\ cfg.max_plan_iterations = 1
    /\ current_plan # NoPlan
    /\ ~current_plan.has_enough_context

\* C4 as stated: with max_plan_iterations = 1 and a first draft whose
\* has_enough_context is false, the run goes from the Planner straight to the
\* Reporter, and the Step-Dispatcher is never invoked.
C4_StraightToReporter ==
    C4_Case =>
        /\ "research_team" \notin frontier
        /\ Count(trace, "research_team") = 0
        /\ Count(trace, "planner") = 1

\* C4 amended: in that run the first Planner invocation stores the draft, raises
\* plan_iterations to 1 and goes to the Step-Dispatcher; the Reporter is reached
\* only through a second Planner invocation, after one Step-Dispatcher invocation.
C4_DispatcherFirst ==
    C4_Case =>
        /\ plan_iterations = 1
        /\ Count(trace, "planner") \in {1, 2}
        /\ (last.node = "planner" /\ Count(trace, "planner") = 1) =>
              (last.goto = "research_team" /\ frontier = {"research_team"})
        /\ (last.node = "planner" /\ Count(trace, "planner") = 2) =>
              (last.goto = "reporter" /\ last.model_calls = 0)
        /\ ("reporter" \in frontier \/ Count(trace, "reporter") > 0) =>
              (Count(trace, "planner") = 2 /\ Count(trace, "research_team") = 1)

C4_Witness ==
    /\ C4_Case
    /\ status = "done"
    /\ Count(trace, "reporter") = 1
    /\ Count(trace, "research_team") = 1

\* C5: the Step-Dispatcher's target is the worker named by the first step in
\* list order whose execution_res is unset.
C5_FirstPendingWorker ==
    (/\ last.node = "research_team"
     /\ current_plan # NoPlan
     /\ FirstUnexecuted(current_plan.steps) # 0
     /\ current_plan.steps[FirstUnexecuted(current_plan.steps)].assigned_to
            \in cfg.team_members) =>
        /\ status # "error"
        /\ last.goto = current_plan.steps[FirstUnexecuted(current_plan.steps)].assigned_to

\* C6: a supervisor decision naming nobody in the team makes the run invoke
\* the supervisor again; the run does not fail.
C6_UnknownNameSelfLoop ==
    (/\ last.node = "supervisor"
     /\ ~last.stop
     /\ last.llm.structured = "Ghostwriter") =>
        (status = "running" /\ frontier = {"supervisor"})

\* the members named by the "next" field of a JSON object the text contains
NamedInJson(content) ==
    {TopNext(SubSeq(content, p[1], p[2]), 0, None) :
        p \in {q \in (1..Len(content)) \X (1..Len(content)) :
                 IsJsonObject(SubSeq(content, q[1], q[2]))}}
      \cap MemberSet

RawDecision == last.node = "supervisor" /\ last.llm.structured = RAISE /\ last.llm.raw_ok

\* C7: when structured output fails and the raw text contains a JSON object
\* whose next field names a team member, amid other prose, the supervisor
\* selects that member and goes to it.
C7_JsonRecovered ==
    (RawDecision /\ Cardinality(NamedInJson(last.llm.content)) = 1) =>
        (\A m \in NamedInJson(last.llm.content) :
            SelectedName(last.llm) = m /\ last.goto = m /\ frontier = {m})

\* C8: a raw text whose brace-delimited part is not valid JSON but which
\* mentions a member name is routed to that member by the keyword scan, and
\* the run does not fail.
C8_ScanAfterBadJson ==
    (/\ RawDecision
     /\ json_match(last.llm.content) # <<>>
     /\ ~IsJsonObject(json_match(last.llm.content))
     /\ ScanNames(member_names \o <<"FINISH">>, last.llm.content) \in MemberSet) =>
        /\ status # "error"
        /\ last.goto = ScanNames(member_names \o <<"FINISH">>, last.llm.content)

C9_Case == cfg.topology = "basic" /\ cfg.tools = {} /\ ~cfg.reasoning

\* C9: in the basic topology with no tools and no reasoning model the
\* Main-Agent node is invoked exactly once and the run is then at the terminal
\* node (or failed in the model call itself).
C9_OneMainAgentInvocation ==
    C9_Case =>
        \/ trace = <<>> /\ status = "running" /\ frontier = {"main_agent"}
        \/ /\ trace = <<"main_agent">>
           /\ frontier = {}
           /\ status \in {"done", "error"}
           /\ status = "error" => (last.model_calls = 1 /\ last.msgs = <<>>)
           /\ status = "done" => Len(messages) = 2

C9_Witness ==
    /\ C9_Case
    /\ ~should_stop
    /\ status = "done"
    /\ trace = <<"main_agent">>
    /\ messages = <<UserMsg, AgentReply("text")>>

\* the run after the reasoning node, if there is one
MainTrace == IF cfg.reasoning /\ trace # <<>> THEN Tail(trace) ELSE trace
MainMessages == IF cfg.reasoning /\ trace # <<>> THEN SubSeq(messages, 3, Len(messages))
                ELSE Tail(messages)
IsAi(m) == m.role = "ai"
MainReplies == SelectSeq(MainMessages, IsAi)

C10_Case ==
    /\ cfg.topology = "basic"
    /\ cfg.tools # {}
    /\ Len(MainReplies) >= 2
    /\ MainReplies[1].tool_calls
    /\ ~MainReplies[2].tool_calls

\* C10: in the tool-augmented basic topology, a first response requesting a
\* tool and a plain second response give the node sequence Main-Agent, Tool,
\* Main-Agent, terminal, with the tool result appended before the second
\* Main-Agent invocation.
C10_ToolRoundTrip ==
    C10_Case =>
        /\ MainTrace = <<"main_agent", "tools", "main_agent">>
        /\ status = "done"
        /\ frontier = {}
        /\ Len(MainMessages) = 3
        /\ MainMessages[1] = MainReplies[1]
        /\ MainMessages[2].role = "tool"
        /\ MainMessages[3] = MainReplies[2]

C10_Witness ==
    /\ C10_Case
    /\ ~should_stop
    /\ status = "done"
    /\ Count(trace, "main_agent") = 2
    /\ Count(trace, "tools") = 1

C12_IterationsBounded ==
    cfg.topology = "research" =>
        /\ plan_iterations >= last.iterations
        /\ plan_iterations >= 0
        /\ plan_iterations <= cfg.max_plan_iterations

C12_Witness ==
    /\ cfg.topology = "research"
    /\ last.node = "planner"
    /\ last.iterations = 1
    /\ plan_iterations = 2
    /\ cfg.max_plan_iterations = 2

IsPrefix(s, t) == Len(s) <= Len(t) /\ SubSeq(t, 1, Len(s)) = s

\* C13: the message history before a node's patch is applied is a prefix of
\* the history after it: a node only appends messages, it never removes,
\* reorders or rewrites the ones already there.
C13_AppendOnly == [][IsPrefix(messages, messages')]_vars

C13_Witness ==
    /\ cfg.topology = "team"
    /\ last.node \in MemberSet
    /\ Len(last.msgs) = 1
    /\ Len(messages) >= 4
    /\ messages[Len(messages)] = last.msgs[1]
    /\ messages[1] = UserMsg

\* C14: every run stays within a step ceiling that no node controls: the
\* number of node invocations never exceeds it, whatever cycle the routing
\* forms (supervisor and member, agent and tool node), and the ceiling is
\* positive; for a worker's graph it is 25 unless AGENT_RECURSION_LIMIT holds a
\* positive integer, which is then the ceiling.
C14_StepCeiling ==
    /\ recursion_limit >= 1
    /\ supersteps <= recursion_limit
    /\ Len(trace) = supersteps
    /\ cfg.invoker = "_execute_agent_step" =>
          recursion_limit = IF cfg.env.kind = "int" /\ cfg.env.value >= 1
                            THEN cfg.env.value ELSE default_recursion_limit

C14_Witness ==
    /\ cfg.invoker = "_execute_agent_step"
    /\ cfg.env = EnvInt(0)
    /\ Len(trace) = default_recursion_limit
    /\ Count(trace, "tools") >= 12
    /\ status = "error"
    /\ frontier = {}

\* C15: in a graph that was built, every goto a node returns names a
\* registered node or the terminal node, and every value the supervisor's
\* router returns is a key of its edges mapping: no run meets a target that
\* was never registered.
C15_TargetsRegistered ==
    Invoked =>
        /\ last.goto \in GraphNodes \cup {END, None}
        /\ (last.node = "supervisor" /\ last.goto # None) =>
              route_from_supervisor(last.goto) \in MemberSet \cup {END}

Built == build.status = "built"

MemberIndexes == 1..Len(build.members)

\* the tool node recorded in tools_nodes for member i
ToolsNodeOf(i) ==
    {p[2] : p \in {q \in build.tools_nodes : q[1] = build.members[i].name}}

\* C16: whatever the team (duplicate members, the lead in its own team, a
\* member called supervisor or reasoning_agent, a member called tools_X next
\* to a member X with tools), a build that does not fail gives a graph in
\* which no two nodes share a name: one node per member, and for each member
\* with tools one tool node of its own that is no other node.
C16_DistinctNodes ==
    Built =>
        /\ \A a, b \in 1..Len(build.nodes) : a # b => build.nodes[a] # build.nodes[b]
        /\ \A i, j \in MemberIndexes :
              i # j => build.members[i].name # build.members[j].name
        /\ \A i \in MemberIndexes :
              /\ build.members[i].name \in SeqToSet(build.nodes)
              /\ build.members[i].name \notin {"supervisor"}
              /\ cfg.reasoning => build.members[i].name # "reasoning_agent"
              /\ build.members[i].tools =>
                    /\ ToolsNodeOf(i) = {get_tools_node_name(build.members[i].name)}
                    /\ \A j \in MemberIndexes :
                          /\ ToolsNodeOf(i) \cap {build.members[j].name} = {}
                          /\ i # j => ToolsNodeOf(i) \cap ToolsNodeOf(j) = {}
        /\ Len(build.nodes) =
              1 + (IF cfg.reasoning THEN 1 ELSE 0) + Len(build.members)
                + Cardinality({i \in MemberIndexes : build.members[i].tools})

\* a built team of three: two members with tools, one called reasoning_agent
C16_Witness ==
    /\ Built
    /\ Len(build.members) = 3
    /\ build.members[1].tools
    /\ build.members[2].tools
    /\ build.members[3].name = "reasoning_agent"
    /\ Cardinality(build.tools_nodes) = 2

ToolNodes == {"tools"} \cup {get_tools_node_name(m) : m \in MemberSet}

\* the agent a tool node belongs to
AgentOf(n) ==
    IF n = "tools" THEN "main_agent"
    ELSE CHOOSE m \in MemberSet : n = get_tools_node_name(m)

\* C17: a tool node runs right after the node of its agent, whose edge led to
\* it, and the node invoked after the tool node is that agent again:
\* main_agent after tools in the basic topology, member M after tools_M in a
\* team, never the supervisor and never another member.
C17_BackToRequester ==
    \A k \in 1..Len(trace) :
        trace[k] \in ToolNodes =>
            /\ k > 1
            /\ trace[k - 1] = AgentOf(trace[k])
            /\ k < Len(trace) => trace[k + 1] = AgentOf(trace[k])
            /\ (k = Len(trace) /\ status = "running") => frontier = {AgentOf(trace[k])}

C17_Witness ==
    /\ cfg.topology = "team"
    /\ Len(trace) >= 4
    /\ trace[Len(trace) - 2] = "Researcher"
    /\ trace[Len(trace) - 1] = "tools_Researcher"
    /\ trace[Len(trace)] = "Researcher"
    /\ ~last.stop

\* C18: a member node of a team entered with should_stop = false whose model
\* call returned: a reply that requests a tool is appended as it is and the
\* Command goes to tools_<member>; any other reply is appended as a user-role
\* message carrying the member's name and the Command goes to the supervisor;
\* in both cases the edge wired out of the member node leads to the node the
\* Command names, so the step has that one successor.
C18_MemberSuccessor ==
    (cfg.topology = "team" /\ last.node \in MemberSet /\ ~last.stop
        /\ last.msgs # <<>>) =>
        /\ Len(last.msgs) = 1
        /\ IF last.msgs[1].tool_calls
           THEN /\ last.msgs[1].role = "ai"
                /\ last.goto = get_tools_node_name(last.node)
           ELSE /\ last.msgs[1].role = "human"
                /\ last.msgs[1].name = last.node
                /\ last.goto = "supervisor"
        /\ last.targets = {last.goto}

\* the step just taken is a Planner invocation whose model call gave no plan
PlannerFailed ==
    /\ trace' # trace
    /\ last'.node = "planner"
    /\ last'.model_calls = 1
    /\ last'.msgs = <<>>

\* C19: when the Planner's model call fails or its output cannot be parsed,
\* the Planner goes to the Reporter if plan_iterations > 0 and to the end
\* sentinel if plan_iterations = 0, and it leaves current_plan and
\* plan_iterations as they were.
C19_PlannerFailure ==
    [][PlannerFailed =>
         /\ last'.goto = IF plan_iterations > 0 THEN "reporter" ELSE END
         /\ frontier' = IF plan_iterations > 0 THEN {"reporter"} ELSE {}
         /\ current_plan' = current_plan
         /\ plan_iterations' = plan_iterations]_vars

C19_Witness ==
    /\ last.node = "planner"
    /\ last.model_calls = 1
    /\ last.msgs = <<>>
    /\ last.iterations = 1
    /\ plan_iterations = 1
    /\ current_plan # NoPlan
    /\ frontier = {"reporter"}

\* the last node invoked needed a model and none is configured for it
NoModelConfigured ==
    \/ last.node = "coordinator" /\ ~cfg.main_llm /\ messages # <<>>
    \/ /\ last.node = "planner"
       /\ ~(cfg.reasoning_llm \/ cfg.main_llm)
       /\ last.iterations < cfg.max_plan_iterations

\* the last node invoked is the Planner on its first iteration and its model
\* call gave no plan
FirstPlanUnparseable ==
    /\ last.node = "planner"
    /\ last.iterations = 0
    /\ last.model_calls = 1
    /\ last.msgs = <<>>

\* C20: a run that meets one of the two fatal conditions (no model configured
\* for a node that needs one, no parseable plan on the first iteration) ends
\* with a run-level error, never as a normal completion.
C20_FatalIsRunError ==
    (NoModelConfigured \/ FirstPlanUnparseable) => status = "error"

\* the Reporter was invoked right after the Planner gave up planning at the
\* ceiling, and its own model call did not fail
ForcedReport ==
    /\ cfg.topology = "research"
    /\ last.node = "reporter"
    /\ Len(trace) >= 2
    /\ trace[Len(trace) - 1] = "planner"
    /\ last.iterations >= cfg.max_plan_iterations
    /\ ~(last.model_calls = 1 /\ RAISE \in last.targets)

\* C21: when the Planner forces the transition to the Reporter at the
\* ceiling, for any max_plan_iterations >= 0 and whatever current_plan holds
\* (nothing at all included), the Reporter completes, sets final_report and
\* the run ends normally.
C21_ExhaustionReports ==
    ForcedReport => (status = "done" /\ final_report # "")

\* the function the model asked for could not be run: the arguments are no
\* JSON object, no tool has the name, or the tool raised
InvocationFailed ==
    /\ last.node = "query"
    /\ last.function_call # NoCall
    /\ \/ last.function_call.arguments # "object"
       \/ last.function_call.name \notin ToolNames
       \/ last.run = "raises"

\* C22: a tool invocation that fails (the tool raises, the arguments are not
\* valid JSON, the named tool does not exist) gives a payload with status
\* error and a message, which is appended to the conversation as the result
\* of the function; the failure does not leave the tool-execution step: the
\* model is asked again with the payload in front of it.
C22_ToolErrorInBand ==
    InvocationFailed =>
        /\ DOMAIN last.result = {"status", "message"}
        /\ last.result.status = "error"
        /\ Len(messages) = Len(last.before) + 2
        /\ IsPrefix(last.before, messages)
        /\ messages[Len(messages)] =
              [role |-> "function", name |-> last.function_call.name,
               content |-> [json |-> last.result]]
        /\ last.model_calls = 2
        /\ status = "error" => last.explain = RAISE

C22_Witness ==
    /\ InvocationFailed
    /\ last.function_call = [name |-> "search", arguments |-> "object"]
    /\ last.run = "raises"
    /\ status = "done"
    /\ messages[Len(messages)].content.json.status = "error"

\* the nodes a step designated as successors: the one its Command names and
\* the ones its edges lead to, the end sentinel aside
Designated ==
    ({last.goto} \cup last.targets) \ {None, END, RAISE}

OneInFlight == Cardinality(frontier) <= 1

\* C23: at most one node is in flight at any moment of a run, and the Command
\* a node returns and the edges wired out of it never designate two different
\* successors in the same step.
C23_OneSuccessor ==
    /\ OneInFlight
    /\ Invoked => Cardinality(Designated) <= 1

\* C24: in every plan-execute run team_members holds the name of every worker
\* that was added to the graph as a node, from the first step on; the field
\* sits in the run's input and no node writes it, so it keeps the value the
\* caller gave it.
C24_TeamMembersHeld ==
    (cfg.topology = "research" /\ Invoked) =>
        /\ Workers \subseteq GraphNodes
        /\ Workers \subseteq cfg.team_members

\* the step just taken is a Planner invocation below the ceiling whose model
\* call was made
PlannerCalled ==
    /\ trace' # trace
    /\ cfg.topology = "research"
    /\ last'.node = "planner"
    /\ last'.model_calls = 1

\* C25: when plan_iterations is below max_plan_iterations and the model
\* returns a valid plan, the Planner stores that plan as current_plan in place
\* of the one before and appends one planner message; if the plan has enough
\* context it goes to the Reporter with plan_iterations unchanged, otherwise
\* it adds one to plan_iterations and goes to the Step-Dispatcher. (A Planner
\* call that stores nothing is the failure case of C19.)
C25_PlanStored ==
    [][PlannerCalled =>
        /\ plan_iterations < cfg.max_plan_iterations
        /\ \/ /\ last'.msgs = <<>>
              /\ UNCHANGED <<messages, current_plan, plan_iterations>>
           \/ /\ messages' = Append(messages, PlannerMsg)
              /\ current_plan' \in PlanValues
              /\ checkpoint'.current_plan = current_plan'
              /\ checkpoint'.plan_iterations = plan_iterations'
              /\ UNCHANGED <<locale, observations, final_report>>
              /\ IF current_plan'.has_enough_context
                 THEN /\ plan_iterations' = plan_iterations
                      /\ last'.goto = "reporter"
                      /\ frontier' = {"reporter"}
                 ELSE /\ plan_iterations' = plan_iterations + 1
                      /\ last'.goto = "research_team"
                      /\ frontier' = {"research_team"}]_vars

C25_Witness ==
    /\ cfg.topology = "research"
    /\ last.node = "planner"
    /\ last.msgs = <<PlannerMsg>>
    /\ Count(trace, "planner") = 2
    /\ plan_iterations = 2
    /\ current_plan \in PlanValues
    /\ ~current_plan.has_enough_context
    /\ frontier = {"research_team"}

\* the first incomplete step of the plan names nobody in team_members
UnknownMember ==
    /\ current_plan # NoPlan
    /\ FirstUnexecuted(current_plan.steps) # 0
    /\ current_plan.steps[FirstUnexecuted(current_plan.steps)].assigned_to
           \notin cfg.team_members

\* the cases in which the Step-Dispatcher hands back to the Planner
BackToPlanner ==
    \/ current_plan = NoPlan
    \/ current_plan.steps = <<>>
    \/ FirstUnexecuted(current_plan.steps) = 0
    \/ UnknownMember

\* C26: the Step-Dispatcher goes to the Planner, changing no state field, in
\* exactly these cases: there is no plan, the plan has no steps, every step is
\* complete, or the first incomplete step names an unknown member (it does
\* not skip ahead to a later step).
C26_DispatchToPlanner ==
    (cfg.topology = "research" /\ last.node = "research_team") =>
        /\ last.msgs = <<>>
        /\ checkpoint = StateValues
        /\ BackToPlanner <=>
              (last.goto = "planner" /\ frontier = {"planner"} /\ status = "running")

\* the step just taken is a worker invocation that returned
WorkerReturned ==
    /\ trace' # trace
    /\ last'.node \in Workers
    /\ status' # "error"

HandoffRequested ==
    /\ last.model_calls = 1
    /\ last.llm.structured = "handoff_to_planner"

\* C28: the Coordinator hands off (to the Planner, or to the
\* Background-Investigator when background investigation is enabled) exactly
\* when the model's response carries a tool call named handoff_to_planner;
\* with no messages, no such tool call or a failed model call the run ends.
\* No tool is executed, no message is appended and no state field other than
\* locale is changed.
C28_CoordinatorHandoff ==
    (cfg.topology = "research" /\ last.node = "coordinator") =>
        /\ last.msgs = <<>>
        /\ last.tool_calls = 0
        /\ plan_iterations = 0
        /\ current_plan = NoPlan
        /\ observations = <<>>
        /\ final_report = ""
        /\ IF HandoffRequested
           THEN /\ last.goto = IF cfg.enable_background_investigation
                               THEN "background_investigator" ELSE "planner"
                /\ frontier = {last.goto}
                /\ status = "running"
           ELSE /\ last.goto = END
                /\ frontier = {}
                /\ status = "done"

\* the run ended because a model call raised, or because the executor's step
\* ceiling was reached
CallFailed == status = "error" /\ last.model_calls = 1
CeilingReached == status = "error" /\ supersteps >= recursion_limit

\* C29: a plan-execute run in which every model and worker call returns ends
\* at the Reporter or at the end sentinel, and it does so without the help of
\* the step ceiling: the Planner and the Step-Dispatcher alternate at most
\* max_plan_iterations times.
C29_ReachesReporterOrEnd ==
    cfg.topology = "research" =>
        /\ Count(trace, "research_team") <= cfg.max_plan_iterations
        /\ (status # "running" /\ ~CallFailed /\ ~CeilingReached) =>
              (status = "done" \/ Count(trace, "reporter") > 0)

\* the step just taken is a worker invocation that filled in a step
WorkerExecuted ==
    /\ WorkerReturned
    /\ last'.msgs # <<>>

\* the worker a step names, read the way the Step-Dispatcher reads it
NamedWorker(step) == GetAttr(step, "member_name")

====
